---------------------------- MODULE Spec2Model ----------------------------
(***************************************************************************)
(* A model of app.py, the Spotify dashboard script.                        *)
(*                                                                         *)
(* The script is a straight-line program that the hosting framework        *)
(* executes from its first line on every start and on every widget change. *)
(* The model keeps the script's variables (the data frame `spotify` and    *)
(* the tables derived from it), the widget values that survive between     *)
(* runs, and the position of the running script.                           *)
(*                                                                         *)
(* Data frame semantics are those of the pandas 1.x / 2.x line the script  *)
(* is written for (in-place fillna on a column, categorical group keys     *)
(* grouped with observed=False, floats for the coerced columns).           *)
(*                                                                         *)
(* Numbers are exact: a cell holds a rational n/d, so the division by 100  *)
(* of the percentage columns and the division by 1e9 of the stream sums    *)
(* are what they are in the script and not the identity.  The quotient     *)
(* k/100 of two integers is the double nearest to the real k/100, and so   *)
(* is the literal 0.2, 0.4, ...: comparing the exact rationals gives the   *)
(* comparison pd.cut makes on the doubles.                                 *)
(***************************************************************************)
EXTENDS Integers, Sequences, FiniteSets, TLC

VARIABLES
    script,                 \* the statements this run executes, in order
    pc,                     \* index in script of the next statement
    exc,                    \* "none", or the exception that ended the run
    raw,                    \* the rows of spotify-2023.csv, as text
    spotify,                \* the data frame of the running script
    slider,                 \* the year slider's value: Default or <<lo, hi>>
    selected_months,        \* the month multiselect's value
    artist_popularity,      \* top-artist table (l.65-67)
    filtered_data_box,      \* rows given to the box plot (l.101-103)
    box_category_order,     \* category order given to the box plot (l.110)
    combination_charts_avg, \* binned-combination table (l.135-136)
    spotify_melted,         \* long-form table (l.186-188)
    facet_category_order,   \* attribute order given to the facet plot (l.201)
    correlation_matrix,     \* the correlation matrix of l.231
    clustered_order,        \* l.238
    heatmap                 \* the matrix of l.241-243, as given to the heatmap

vars == <<script, pc, exc, raw, spotify, slider, selected_months,
          artist_popularity, filtered_data_box, box_category_order,
          combination_charts_avg, spotify_melted, facet_category_order,
          correlation_matrix, clustered_order, heatmap>>

---------------------------------------------------------------------------
(* Cells.  A cell is missing (NaN), a number n/d, or a text token. *)

NaN == [k |-> "nan", n |-> 0, d |-> 1, s |-> <<>>]
Rat(a, b) == [k |-> "num", n |-> a, d |-> b, s |-> <<>>]
Num(a) == Rat(a, 1)
Str(t) == [k |-> "str", n |-> 0, d |-> 1, s |-> t]

IsNaN(c) == c.k = "nan"
IsNum(c) == c.k = "num"
IsStr(c) == c.k = "str"

\* x < y and x <= y on numbers (denominators are positive)
RatLT(x, y) == x.n * y.d < y.n * x.d
RatLE(x, y) == x.n * y.d <= y.n * x.d

\* x / m for a positive integer m
RatDiv(x, m) == Rat(x.n, x.d * m)

\* x + y, over the common denominator when the two differ
RatAdd(x, y) ==
    IF x.d = y.d THEN Rat(x.n + y.n, x.d)
    ELSE Rat(x.n * y.d + y.n * x.d, x.d * y.d)

Undefined == <<>>

Range(s) == {s[i] : i \in DOMAIN s}

---------------------------------------------------------------------------
(* Text tokens of the CSV file.  A token is a sequence of characters; the   *)
(* model's alphabet has two digits, the thousands separator, the sign and a *)
(* letter.                                                                  *)

MaxTokLen == 3

Digits == {"0", "1", "2", "3", "4", "5", "6", "7", "8", "9"}
Alphabet == {"1", "2", ",", "-", "x"}

Tokens == UNION {[1..len -> Alphabet] : len \in 1..MaxTokLen}

DigitVal(ch) ==
    CASE ch = "0" -> 0 [] ch = "1" -> 1 [] ch = "2" -> 2 [] ch = "3" -> 3
      [] ch = "4" -> 4 [] ch = "5" -> 5 [] ch = "6" -> 6 [] ch = "7" -> 7
      [] ch = "8" -> 8 [] ch = "9" -> 9

AllDigits(t) == Len(t) > 0 /\ \A i \in DOMAIN t : t[i] \in Digits

\* the text a numeric parser accepts: an optional sign, then digits
IsNumericText(t) ==
    \/ AllDigits(t)
    \/ Len(t) > 1 /\ t[1] = "-" /\ AllDigits(Tail(t))

RECURSIVE ParseNat(_)
ParseNat(t) ==
    IF t = <<>> THEN 0
    ELSE 10 * ParseNat(SubSeq(t, 1, Len(t) - 1)) + DigitVal(t[Len(t)])

ParseInt(t) == IF t[1] = "-" THEN 0 - ParseNat(Tail(t)) ELSE ParseNat(t)

\* pd.to_numeric(..., errors='ignore') on one element: a token that does not
\* parse is returned as it is
ToNumericIgnore(c) ==
    IF IsStr(c) /\ IsNumericText(c.s) THEN Num(ParseInt(c.s)) ELSE c

\* pd.to_numeric(..., errors='coerce') on one element (l.12-14)
ToNumericCoerce(c) ==
    IF IsStr(c)
    THEN IF IsNumericText(c.s) THEN Num(ParseInt(c.s)) ELSE NaN
    ELSE c

\* Series.str.replace(",", "") on one element of a text column (l.13)
StrReplaceComma(c) ==
    IF IsStr(c) THEN Str(SelectSeq(c.s, LAMBDA ch : ch # ",")) ELSE NaN

---------------------------------------------------------------------------
(* Tables: sequences of rows; a row is a record with one field per column. *)

TextColumns == {"streams", "in_deezer_playlists", "in_shazam_charts"}

Column(tbl, col) == [i \in DOMAIN tbl |-> tbl[i][col]]

SetColumn(tbl, col, f(_)) ==
    [i \in DOMAIN tbl |-> [tbl[i] EXCEPT ![col] = f(tbl[i][col])]]

DropColumns(tbl, cols) ==
    [i \in DOMAIN tbl |-> [c \in (DOMAIN tbl[i]) \ cols |-> tbl[i][c]]]

WithColumn(row, col, val) ==
    [c \in (DOMAIN row) \cup {col} |-> IF c = col THEN val ELSE row[c]]

\* The dtype pd.read_csv infers for a column (l.8): numeric when every cell
\* that is present parses, object (text) otherwise.
InfersNumeric(tbl, col) ==
    \A i \in DOMAIN tbl : IsStr(tbl[i][col]) => IsNumericText(tbl[i][col].s)

read_csv(file) ==
    [i \in DOMAIN file |->
        [c \in DOMAIN file[i] |->
            IF c \in TextColumns /\ InfersNumeric(file, c)
            THEN ToNumericCoerce(file[i][c])
            ELSE file[i][c]]]

\* Whether a column has the .str accessor: only an object column has
HasStrAccessor(tbl, col) == \E i \in DOMAIN tbl : IsStr(tbl[i][col])

---------------------------------------------------------------------------
(* The Cleaner and the Deriver, l.12-44, as functions of the data frame. *)

Missing == "NaN"  \* a missing value of a text or categorical column

to_numeric_streams(tbl) == SetColumn(tbl, "streams", ToNumericCoerce)

DeezerCell(c) == ToNumericCoerce(StrReplaceComma(c))

to_numeric_deezer(tbl) == SetColumn(tbl, "in_deezer_playlists", DeezerCell)

to_numeric_shazam(tbl) == SetColumn(tbl, "in_shazam_charts", ToNumericCoerce)

dropped_columns ==
    {"released_day", "key", "instrumentalness_pct", "liveness_pct",
     "speechiness_pct", "artist_count", "mode"}

percentage_columns ==
    <<"danceability_pct", "valence_pct", "energy_pct", "acousticness_pct">>

PercentCell(c) == IF IsNum(c) THEN RatDiv(c, 100) ELSE c

\* the loop of l.24-25, from its k-th column on
RECURSIVE DividePercentages(_, _)
DividePercentages(tbl, k) ==
    IF k > Len(percentage_columns) THEN tbl
    ELSE DividePercentages(SetColumn(tbl, percentage_columns[k], PercentCell),
                           k + 1)

energy_bins ==
    <<Rat(0, 10), Rat(2, 10), Rat(4, 10), Rat(6, 10), Rat(8, 10), Rat(10, 10)>>
energy_labels ==
    <<"Very Low (0-0.2)", "Low (0.2-0.4)", "Medium (0.4-0.6)",
      "High (0.6-0.8)", "Very High (0.8-1.0)">>
valence_bins ==
    <<Rat(0, 10), Rat(2, 10), Rat(4, 10), Rat(6, 10), Rat(8, 10), Rat(10, 10)>>
valence_labels ==
    <<"Very Low (0-0.2)", "Low (0.2-0.4)", "Medium (0.4-0.6)",
      "High (0.6-0.8)", "Very High (0.8-1.0)">>

\* pd.cut(x, bins=..., labels=...) on one element (l.34-35): right=True and
\* include_lowest=False are the defaults, every interval is (bins[i], bins[i+1]]
Cut(x, bins, labels) ==
    IF ~IsNum(x) THEN Missing
    ELSE IF \E i \in DOMAIN labels : RatLT(bins[i], x) /\ RatLE(x, bins[i + 1])
         THEN labels[CHOOSE i \in DOMAIN labels :
                        RatLT(bins[i], x) /\ RatLE(x, bins[i + 1])]
         ELSE Missing

\* l.34-37
BinLevels(tbl) ==
    DropColumns(
        [i \in DOMAIN tbl |->
            WithColumn(
                WithColumn(tbl[i], "energy_level",
                           Cut(tbl[i].energy_pct, energy_bins, energy_labels)),
                "valence_level",
                Cut(tbl[i].valence_pct, valence_bins, valence_labels))],
        {"energy_pct", "valence_pct"})

\* fillna(0) that returns a new column and leaves the frame as it was
FillnaNotInPlace(c) == c

\* Series.fillna(0, inplace=True) on one element (l.40)
FillnaZero(c) == IF IsNaN(c) THEN Num(0) ELSE c

fillna_shazam(tbl) == SetColumn(tbl, "in_shazam_charts", FillnaZero)

\* strftime('%B') of the date to_datetime(format='%m') makes of month m (l.44)
MonthNameOf(m) ==
    CASE m = 1 -> "January" [] m = 2 -> "February" [] m = 3 -> "March"
      [] m = 4 -> "April" [] m = 5 -> "May" [] m = 6 -> "June"
      [] m = 7 -> "July" [] m = 8 -> "August" [] m = 9 -> "September"
      [] m = 10 -> "October" [] m = 11 -> "November" [] m = 12 -> "December"

MonthParses(c) == IsNum(c) /\ c.d = 1 /\ c.n \in 1..12

MonthCell(c) == IF MonthParses(c) THEN MonthNameOf(c.n) ELSE Missing

month_to_name(tbl) == SetColumn(tbl, "released_month", MonthCell)

---------------------------------------------------------------------------
(* The Aggregator's views, as functions of the cleaned data frame. *)

\* Series.sum() / mean(): missing values are skipped
RECURSIVE SumCells(_)
SumCells(cells) ==
    IF cells = <<>> THEN Num(0)
    ELSE IF IsNum(Head(cells)) THEN RatAdd(Head(cells), SumCells(Tail(cells)))
         ELSE SumCells(Tail(cells))

CountCells(cells) == Len(SelectSeq(cells, IsNum))

\* the total where the average is meant
TotalCells(cells) == IF CountCells(cells) = 0 THEN NaN ELSE SumCells(cells)

MeanCells(cells) ==
    IF CountCells(cells) = 0 THEN NaN
    ELSE RatDiv(SumCells(cells), CountCells(cells))

RECURSIVE MinOf(_)
MinOf(S) ==
    LET x == CHOOSE x \in S : TRUE
    IN  IF S = {x} THEN x
        ELSE LET m == MinOf(S \ {x}) IN IF x < m THEN x ELSE m

RECURSIVE MaxOf(_)
MaxOf(S) ==
    LET x == CHOOSE x \in S : TRUE
    IN  IF S = {x} THEN x
        ELSE LET m == MaxOf(S \ {x}) IN IF x > m THEN x ELSE m

Years(tbl) == {tbl[i].released_year.n : i \in DOMAIN tbl}

Default == <<>>  \* the slider was never moved

\* what st.slider returns (l.59-61): the user's range, or the default, the
\* whole range of release years of the data
SliderValue(tbl, sl) ==
    IF sl = Default THEN <<MinOf(Years(tbl)), MaxOf(Years(tbl))>> ELSE sl

\* a filter with an exclusive upper end
InYearRangeExclusive(row, min_year, max_year) ==
    row.released_year.n >= min_year /\ row.released_year.n < max_year

\* l.62
InYearRange(row, min_year, max_year) ==
    row.released_year.n >= min_year /\ row.released_year.n <= max_year

\* The artist names in the order groupby sorts its keys.
ArtistOrder ==
    <<"A01", "A02", "A03", "A04", "A05", "A06", "A07", "A08", "A09", "A10",
      "A11", "A12", "A13">>

\* groupby('artist(s)_name')['streams'].sum().reset_index() (l.65)
GroupSumStreams(tbl) ==
    LET present == SelectSeq(ArtistOrder,
                     LAMBDA a : \E i \in DOMAIN tbl : tbl[i].artist_s_name = a)
    IN  [g \in DOMAIN present |->
            [artist_s_name |-> present[g],
             streams |-> SumCells(Column(
                 SelectSeq(tbl, LAMBDA r : r.artist_s_name = present[g]),
                 "streams"))]]

\* sort_values(by='streams', ascending=False) (l.66); rows of equal streams
\* keep the order they had
RECURSIVE SortByStreamsDesc(_)
SortByStreamsDesc(rows) ==
    IF rows = <<>> THEN <<>>
    ELSE LET rest == SortByStreamsDesc(SubSeq(rows, 1, Len(rows) - 1))
             x == rows[Len(rows)]
             before == SelectSeq(rest, LAMBDA r : RatLE(x.streams, r.streams))
             after == SelectSeq(rest, LAMBDA r : RatLT(r.streams, x.streams))
         IN  before \o <<x>> \o after

TopN == 10

HeadRows(rows, count) == SubSeq(rows, 1, IF Len(rows) < count THEN Len(rows) ELSE count)

Billion == 1000000000

\* l.62-67
TopArtists(tbl, min_year, max_year) ==
    LET filtered_data_bar ==
            SelectSeq(tbl, LAMBDA r : InYearRange(r, min_year, max_year))
        top == HeadRows(SortByStreamsDesc(GroupSumStreams(filtered_data_bar)),
                        TopN)
    IN  [i \in DOMAIN top |->
            [artist_s_name |-> top[i].artist_s_name,
             streams |-> top[i].streams,
             streams_billions |-> RatDiv(top[i].streams, Billion)]]

month_names ==
    <<"January", "February", "March", "April", "May", "June", "July",
      "August", "September", "October", "November", "December">>

\* the frame as it is, the filter of l.101 left out
FilterNoMonths(tbl, selected) == tbl

\* l.101-103: isin keeps the rows of the selected months; making the column
\* categorical over selected_months changes no value of a kept row
FilterMonths(tbl, selected) ==
    SelectSeq(tbl, LAMBDA r : r.released_month \in Range(selected))

\* groupby(['energy level', 'valence level'])['in_spotify_charts'].mean()
\* .reset_index() (l.135-136).  Both keys are categorical and observed is
\* left at its default, False: the result has one row per pair of
\* categories, in category order, and the mean of a pair without rows is NaN.
GroupMeanCharts(tbl) ==
    LET nv == Len(valence_labels)
        pair(g) == <<energy_labels[((g - 1) \div nv) + 1],
                     valence_labels[((g - 1) % nv) + 1]>>
    IN  [g \in 1..(Len(energy_labels) * nv) |->
            [energy_level |-> pair(g)[1],
             valence_level |-> pair(g)[2],
             in_spotify_charts |-> MeanCells(Column(
                 SelectSeq(tbl, LAMBDA r : /\ r.energy_level = pair(g)[1]
                                           /\ r.valence_level = pair(g)[2]),
                 "in_spotify_charts"))]]

value_vars == <<"danceability_pct", "bpm", "acousticness_pct">>

\* a melt that pairs the values of every attribute with the first row's
\* identifiers
MeltFirstRow(tbl) ==
    LET rows == Len(tbl)
    IN  [m \in 1..(Len(value_vars) * rows) |->
            LET a == value_vars[((m - 1) \div rows) + 1]
                r == tbl[((m - 1) % rows) + 1]
            IN  [in_spotify_playlists |-> tbl[1].in_spotify_playlists,
                 track_name |-> tbl[1].track_name,
                 attribute |-> a,
                 value |-> r[a]]]

\* melt(id_vars=[in_spotify_playlists, track_name], value_vars=...) (l.186)
Melt(tbl) ==
    LET rows == Len(tbl)
    IN  [m \in 1..(Len(value_vars) * rows) |->
            LET a == value_vars[((m - 1) \div rows) + 1]
                r == tbl[((m - 1) % rows) + 1]
            IN  [in_spotify_playlists |-> r.in_spotify_playlists,
                 track_name |-> r.track_name,
                 attribute |-> a,
                 value |-> r[a]]]

\* category_orders={'attribute': [...]} (l.201)
facet_attribute_order == <<"danceability_pct", "bpm", "acousticness_pct">>

---------------------------------------------------------------------------
(* The Clusterer, l.226-243. *)

columns ==
    <<"streams", "in_spotify_playlists", "in_spotify_charts",
      "in_apple_charts", "in_apple_playlists", "in_deezer_playlists",
      "in_deezer_charts", "in_shazam_charts">>

RECURSIVE SumInts(_)
SumInts(s) == IF s = <<>> THEN 0 ELSE Head(s) + SumInts(Tail(s))

\* round(2) of r = sxy / sqrt(p), in hundredths, for sxy >= 0 and p > 0:
\* the k nearest to 100 r, the even one of two that are equally near.
\* 100 r >= k - 1/2 is (2k - 1)^2 p <= (200 sxy)^2.
RoundHundredths(sxy, p) ==
    LET reached(k) == (2 * k - 1) * (2 * k - 1) * p <= 40000 * sxy * sxy
        k == CHOOSE k \in 0..100 :
                /\ k = 0 \/ reached(k)
                /\ k = 100 \/ ~reached(k + 1)
        tie == k > 0 /\ (2 * k - 1) * (2 * k - 1) * p = 40000 * sxy * sxy
    IN  IF tie /\ k % 2 = 1 THEN k - 1 ELSE k

\* Pearson's r of two columns over the rows where both are present, rounded
\* to two decimals: DataFrame.corr().round(2) on one pair (l.231).  r is
\* missing when fewer than two rows are left or a column is constant there.
Pearson(xs, ys) ==
    LET both == SelectSeq([i \in DOMAIN xs |-> i],
                          LAMBDA i : IsNum(xs[i]) /\ IsNum(ys[i]))
        x == [k \in DOMAIN both |-> xs[both[k]].n]
        y == [k \in DOMAIN both |-> ys[both[k]].n]
        count == Len(both)
        sxy == count * SumInts([k \in DOMAIN both |-> x[k] * y[k]])
                    - SumInts(x) * SumInts(y)
        sxx == count * SumInts([k \in DOMAIN both |-> x[k] * x[k]])
                    - SumInts(x) * SumInts(x)
        syy == count * SumInts([k \in DOMAIN both |-> y[k] * y[k]])
                    - SumInts(y) * SumInts(y)
    IN  IF count < 2 \/ sxx = 0 \/ syy = 0 THEN NaN
        ELSE IF sxy >= 0 THEN Rat(RoundHundredths(sxy, sxx * syy), 100)
        ELSE Rat(0 - RoundHundredths(0 - sxy, sxx * syy), 100)

\* spotify[columns].corr().round(2) (l.231): a matrix with its row and
\* column labels
Corr(tbl) ==
    [index |-> columns,
     columns |-> columns,
     values |-> [a \in DOMAIN columns |-> [b \in DOMAIN columns |->
                    Pearson(Column(tbl, columns[a]), Column(tbl, columns[b]))]]]

HasMissing(m) ==
    \E a \in DOMAIN m.values : \E b \in DOMAIN m.values[a] :
        IsNaN(m.values[a][b])

\* x * y < u * v for numbers whose products pass 2^31, by halves of 15 bits
Product(x, y) ==
    LET low == (x % 32768) * y
    IN  <<(x \div 32768) * y + (low \div 32768), low % 32768>>
ProductLess(x, y, u, v) ==
    LET a == Product(x, y)
        b == Product(u, v)
    IN  a[1] < b[1] \/ (a[1] = b[1] /\ a[2] < b[2])

\* Ward's criterion for merging clusters a and b, as a fraction <<num, den>>:
\* |a||b| / (|a| + |b|) times the squared distance of the two centroids.
\* The height of the merge in the linkage is the root of twice this.
Ward(a, b) ==
    <<SumInts([k \in DOMAIN a.sum |->
            (b.size * a.sum[k] - a.size * b.sum[k])
                * (b.size * a.sum[k] - a.size * b.sum[k])]),
      a.size * b.size * (a.size + b.size)>>

\* One round of the agglomeration: the two clusters whose merge costs least
\* become one, numbered next; the older of the two is its left branch.  Of
\* merges of equal cost the one of the older clusters is made.
RECURSIVE Agglomerate(_, _)
Agglomerate(clusters, next) ==
    IF Cardinality(clusters) = 1 THEN CHOOSE c \in clusters : TRUE
    ELSE
        LET ids == {c.id : c \in clusters}
            of == [i \in ids |-> CHOOSE c \in clusters : c.id = i]
            pairs == {pr \in ids \X ids : pr[1] < pr[2]}
            cost == [pr \in pairs |-> Ward(of[pr[1]], of[pr[2]])]
            cheaper(pr, qr) ==
                ProductLess(cost[pr][1], cost[qr][2], cost[qr][1], cost[pr][2])
            older(pr, qr) ==
                pr[1] < qr[1] \/ (pr[1] = qr[1] /\ pr[2] < qr[2])
            best == CHOOSE pr \in pairs : \A qr \in pairs \ {pr} :
                        cheaper(pr, qr) \/ (~cheaper(qr, pr) /\ older(pr, qr))
            left == of[best[1]]
            right == of[best[2]]
            merged == [id |-> next,
                       leaves |-> left.leaves \o right.leaves,
                       sum |-> [k \in DOMAIN left.sum |->
                                    left.sum[k] + right.sum[k]],
                       size |-> left.size + right.size]
        IN  Agglomerate((clusters \ {left, right}) \cup {merged}, next + 1)

\* sch.dendrogram(sch.linkage(m, method='ward'), labels=m.columns,
\* no_plot=True)['ivl'] (l.234-238): the rows of m are the observations, the
\* leaves of the tree are read from left to right
LeafOrder(m) ==
    LET count == Len(m.values)
        root == Agglomerate(
            {[id |-> i, leaves |-> <<i>>,
              sum |-> [k \in 1..count |-> m.values[i][k].n], size |-> 1] :
                i \in 1..count},
            count + 1)
    IN  [i \in 1..count |-> m.columns[root.leaves[i]]]

LabelIndex(labels, name) == CHOOSE i \in DOMAIN labels : labels[i] = name

\* m.loc[order, order] (l.241)
Loc(m, order) ==
    [index |-> order,
     columns |-> order,
     values |-> [i \in DOMAIN order |-> [j \in DOMAIN order |->
                    m.values[LabelIndex(m.index, order[i])]
                            [LabelIndex(m.columns, order[j])]]]]

\* a reordered matrix whose columns are left in the order of its rows
KeepColumns(m) == m

\* m.iloc[:, ::-1] (l.243)
ReverseColumns(m) ==
    LET count == Len(m.columns)
    IN  [index |-> m.index,
         columns |-> [j \in 1..count |-> m.columns[count + 1 - j]],
         values |-> [i \in DOMAIN m.values |-> [j \in 1..count |->
                        m.values[i][count + 1 - j]]]]

---------------------------------------------------------------------------
(* The running script.  script lists the statements the run executes, by   *)
(* name; pc is the next one.  An exception ends the run where it is raised. *)

Running(stmt) == exc = "none" /\ pc \in DOMAIN script /\ script[pc] = stmt

\* the statement was executed by the current run
Executed(stmt) == \E i \in 1..(pc - 1) : i \in DOMAIN script /\ script[i] = stmt

Finished == exc = "none" /\ pc = Len(script) + 1

widgets == <<slider, selected_months>>

views == <<artist_popularity, filtered_data_box, box_category_order,
           combination_charts_avg, spotify_melted, facet_category_order,
           correlation_matrix, clustered_order, heatmap>>

\* l.8
ReadCsv ==
    /\ Running("read_csv")
    /\ spotify' = read_csv(raw)
    /\ pc' = pc + 1
    /\ UNCHANGED <<script, exc, raw, widgets, views>>

\* l.12-14.  A column read_csv inferred as numeric has no .str accessor:
\* l.13 raises AttributeError, after l.12 has run.
Coerce ==
    /\ Running("to_numeric")
    /\ IF HasStrAccessor(spotify, "in_deezer_playlists")
       THEN /\ spotify' = to_numeric_shazam(to_numeric_deezer(
                              to_numeric_streams(spotify)))
            /\ pc' = pc + 1
            /\ exc' = exc
       ELSE /\ spotify' = to_numeric_streams(spotify)
            /\ pc' = pc
            /\ exc' = "AttributeError"
    /\ UNCHANGED <<script, raw, widgets, views>>

\* l.19-20
Drop ==
    /\ Running("drop")
    /\ spotify' = DropColumns(spotify, dropped_columns)
    /\ pc' = pc + 1
    /\ UNCHANGED <<script, exc, raw, widgets, views>>

\* l.23-25
Percent ==
    /\ Running("percent")
    /\ spotify' = DividePercentages(spotify, 1)
    /\ pc' = pc + 1
    /\ UNCHANGED <<script, exc, raw, widgets, views>>

\* l.28-37
Bin ==
    /\ Running("cut")
    /\ spotify' = BinLevels(spotify)
    /\ pc' = pc + 1
    /\ UNCHANGED <<script, exc, raw, widgets, views>>

\* l.40
Fillna ==
    /\ Running("fillna")
    /\ spotify' = fillna_shazam(spotify)
    /\ pc' = pc + 1
    /\ UNCHANGED <<script, exc, raw, widgets, views>>

\* l.44.  A month that is no month number makes to_datetime raise
\* ValueError.  With a missing month the column is a float column, and
\* to_datetime either takes the missing value for no date or does not match
\* the floats against '%m' and raises: the run may go either way.
MonthNames ==
    /\ Running("month_name")
    /\ LET months == Column(spotify, "released_month")
           must_raise == \E i \in DOMAIN months :
                            IsNum(months[i]) /\ ~MonthParses(months[i])
           may_raise == /\ \E i \in DOMAIN months : IsNaN(months[i])
                        /\ \E i \in DOMAIN months : IsNum(months[i])
       IN  \E raises \in BOOLEAN :
            /\ must_raise => raises
            /\ raises => (must_raise \/ may_raise)
            /\ IF raises
               THEN /\ spotify' = spotify
                    /\ pc' = pc
                    /\ exc' = "ValueError"
               ELSE /\ spotify' = month_to_name(spotify)
                    /\ pc' = pc + 1
                    /\ exc' = exc
    /\ UNCHANGED <<script, raw, widgets, views>>

\* l.59-67
TopArtist ==
    /\ Running("top_artists")
    /\ LET year_range == SliderValue(spotify, slider)
       IN  artist_popularity' = TopArtists(spotify, year_range[1], year_range[2])
    /\ pc' = pc + 1
    /\ UNCHANGED <<script, exc, raw, spotify, widgets, filtered_data_box,
                   box_category_order, combination_charts_avg, spotify_melted,
                   facet_category_order, correlation_matrix, clustered_order,
                   heatmap>>

\* l.96-113
BoxPlot ==
    /\ Running("box_plot")
    /\ filtered_data_box' = FilterMonths(spotify, selected_months)
    /\ box_category_order' = selected_months
    /\ pc' = pc + 1
    /\ UNCHANGED <<script, exc, raw, spotify, widgets, artist_popularity,
                   combination_charts_avg, spotify_melted,
                   facet_category_order, correlation_matrix, clustered_order,
                   heatmap>>

\* l.135-136
GroupMean ==
    /\ Running("group_mean")
    /\ combination_charts_avg' = GroupMeanCharts(spotify)
    /\ pc' = pc + 1
    /\ UNCHANGED <<script, exc, raw, spotify, widgets, artist_popularity,
                   filtered_data_box, box_category_order, spotify_melted,
                   facet_category_order, correlation_matrix, clustered_order,
                   heatmap>>

\* l.186-203
MeltStep ==
    /\ Running("melt")
    /\ spotify_melted' = Melt(spotify)
    /\ facet_category_order' = facet_attribute_order
    /\ pc' = pc + 1
    /\ UNCHANGED <<script, exc, raw, spotify, widgets, artist_popularity,
                   filtered_data_box, box_category_order,
                   combination_charts_avg, correlation_matrix, clustered_order,
                   heatmap>>

\* l.226-231
Correlate ==
    /\ Running("corr")
    /\ correlation_matrix' = Corr(spotify)
    /\ pc' = pc + 1
    /\ UNCHANGED <<script, exc, raw, spotify, widgets, artist_popularity,
                   filtered_data_box, box_category_order,
                   combination_charts_avg, spotify_melted,
                   facet_category_order, clustered_order, heatmap>>

\* l.234-254.  linkage raises ValueError when a distance is not finite.
Cluster ==
    /\ Running("linkage")
    /\ IF HasMissing(correlation_matrix)
       THEN /\ exc' = "ValueError"
            /\ pc' = pc
            /\ UNCHANGED <<clustered_order, heatmap>>
       ELSE /\ clustered_order' = LeafOrder(correlation_matrix)
            /\ heatmap' = ReverseColumns(Loc(correlation_matrix,
                                             clustered_order'))
            /\ pc' = pc + 1
            /\ exc' = exc
    /\ UNCHANGED <<script, raw, spotify, widgets, artist_popularity,
                   filtered_data_box, box_category_order,
                   combination_charts_avg, spotify_melted,
                   facet_category_order, correlation_matrix>>

\* a run that starts from the data frame the run before left, as a cached
\* load would
RerunOnCachedFrame ==
    /\ pc' = 2
    /\ exc' = "none"
    /\ spotify' = spotify
    /\ artist_popularity' = Undefined
    /\ filtered_data_box' = Undefined
    /\ box_category_order' = Undefined
    /\ combination_charts_avg' = Undefined
    /\ spotify_melted' = Undefined
    /\ facet_category_order' = Undefined
    /\ correlation_matrix' = Undefined
    /\ clustered_order' = Undefined
    /\ heatmap' = Undefined
    /\ UNCHANGED <<script, raw>>

\* The hosting framework runs the script again, from its first line and
\* with no variable of the run before, when a widget changes.  A widget can
\* change once the current run has drawn it.
Rerun ==
    /\ pc' = 1
    /\ exc' = "none"
    /\ spotify' = Undefined
    /\ artist_popularity' = Undefined
    /\ filtered_data_box' = Undefined
    /\ box_category_order' = Undefined
    /\ combination_charts_avg' = Undefined
    /\ spotify_melted' = Undefined
    /\ facet_category_order' = Undefined
    /\ correlation_matrix' = Undefined
    /\ clustered_order' = Undefined
    /\ heatmap' = Undefined
    /\ UNCHANGED <<script, raw>>

\* the user moves the year slider of l.59-61 to a range within its ends
SliderChange ==
    /\ Executed("top_artists")
    /\ \E lo \in MinOf(Years(spotify))..MaxOf(Years(spotify)) :
       \E hi \in lo..MaxOf(Years(spotify)) :
          /\ slider # <<lo, hi>>
          /\ slider' = <<lo, hi>>
    /\ UNCHANGED selected_months
    /\ Rerun

MaxSelected == 2

\* the months the user of the model picks among
UserMonths == {"January", "February", "December"}

\* what st.multiselect can return: the picked months in the order picked
Selections ==
    UNION {{s \in [1..len -> UserMonths] :
                \A i, j \in 1..len : i # j => s[i] # s[j]} :
           len \in 0..MaxSelected}

\* the user changes the month multiselect of l.99
MultiselectChange ==
    /\ Executed("box_plot")
    /\ \E s \in Selections :
          /\ selected_months # s
          /\ selected_months' = s
    /\ UNCHANGED slider
    /\ Rerun

---------------------------------------------------------------------------
(* Input files and runs. *)

BaseRow ==
    [track_name |-> "T1", artist_s_name |-> "A01", artist_count |-> Num(1),
     released_year |-> Num(2023), released_month |-> Num(1),
     released_day |-> Num(1), in_spotify_playlists |-> Num(10),
     in_spotify_charts |-> Num(1), streams |-> Str(<<"1">>),
     in_apple_playlists |-> Num(1), in_apple_charts |-> Num(1),
     in_deezer_playlists |-> Str(<<"1", ",", "2">>),
     in_deezer_charts |-> Num(0), in_shazam_charts |-> NaN, bpm |-> Num(120),
     key |-> "C", mode |-> "Major", danceability_pct |-> Num(50),
     valence_pct |-> Num(50), energy_pct |-> Num(50),
     acousticness_pct |-> Num(50), instrumentalness_pct |-> Num(0),
     liveness_pct |-> Num(10), speechiness_pct |-> Num(5)]

\* the state of a run that has executed nothing yet
Fresh ==
    /\ pc = 1
    /\ exc = "none"
    /\ spotify = Undefined
    /\ artist_popularity = Undefined
    /\ filtered_data_box = Undefined
    /\ box_category_order = Undefined
    /\ combination_charts_avg = Undefined
    /\ spotify_melted = Undefined
    /\ facet_category_order = Undefined
    /\ correlation_matrix = Undefined
    /\ clustered_order = Undefined
    /\ heatmap = Undefined

FirstRun == Fresh /\ slider = Default /\ selected_months = month_names

CleanerScript ==
    <<"read_csv", "to_numeric", "drop", "percent", "cut", "fillna",
      "month_name">>

\* Files for the Cleaner: two rows; in the first, one text column holds any
\* of the cells given and the others a token with a separator or nothing; the
\* second row holds the same token in the three columns.
AnyCell == {NaN} \cup {Str(t) : t \in Tokens}
SomeCell == {NaN, Str(<<"1", ",", "2">>)}
SecondRowCell == {NaN, Str(<<"1", "2">>), Str(<<"1", ",", "2">>)}

TextRow(a, b, c) ==
    [BaseRow EXCEPT !.streams = a, !.in_deezer_playlists = b,
                    !.in_shazam_charts = c]

CleanerFiles(any) ==
    LET first ==
            {TextRow(a, b, c) : a \in any, b \in SomeCell, c \in SomeCell}
            \cup
            {TextRow(a, b, c) : a \in SomeCell, b \in any, c \in SomeCell}
            \cup
            {TextRow(a, b, c) : a \in SomeCell, b \in SomeCell, c \in any}
    IN  {<<r, [TextRow(x, x, x) EXCEPT !.track_name = "T2"]>> :
            r \in first, x \in SecondRowCell}

InitCleaner == raw \in CleanerFiles(AnyCell) /\ script = CleanerScript /\ FirstRun

NextCleaner ==
    ReadCsv \/ Coerce \/ Drop \/ Percent \/ Bin \/ Fillna \/ MonthNames

SpecCleaner == InitCleaner /\ [][NextCleaner]_vars

---------------------------------------------------------------------------
(* Claims about the Cleaner, checked under SpecCleaner. *)

\* the text of a source cell parses as a number
SourceParses(src) == IsStr(src) /\ IsNumericText(src.s)

\* digit groups separated by single commas, such as "1,021"
IsGrouped(t) ==
    /\ Len(t) > 0
    /\ t[1] \in Digits /\ t[Len(t)] \in Digits
    /\ \A i \in DOMAIN t : t[i] \in Digits \cup {","}
    /\ \A i \in 1..(Len(t) - 1) : ~(t[i] = "," /\ t[i + 1] = ",")
    /\ \E i \in DOMAIN t : t[i] = ","

Ungrouped(t) == SelectSeq(t, LAMBDA ch : ch # ",")

\* the text the parser is given for a source cell of column c does not parse
FailsToParse(c, src) ==
    /\ IsStr(src)
    /\ ~IsNumericText(IF c = "in_deezer_playlists" THEN Ungrouped(src.s)
                                                    ELSE src.s)

\* C4, as stated: after the coercion of l.12-14 every value of streams,
\* in_deezer_playlists and in_shazam_charts is missing or a finite number
\* that is not negative.
C4_NonNegativeOrMissing ==
    Executed("to_numeric") =>
        \A i \in DOMAIN spotify : \A c \in TextColumns :
            IsNaN(spotify[i][c]) \/ (IsNum(spotify[i][c]) /\ spotify[i][c].n >= 0)

\* C4, amended: after the coercion every value of the three columns is a
\* number (of either sign) or missing, never text; a value whose text does
\* not parse is missing (0 in in_shazam_charts once l.40 has filled it); and
\* the coercion raises only when in_deezer_playlists holds no text at all,
\* never because a value fails to parse.
C4_NumberOrMissing ==
    /\ Executed("to_numeric") =>
        \A i \in DOMAIN spotify : \A c \in TextColumns :
            /\ IsNaN(spotify[i][c]) \/ IsNum(spotify[i][c])
            /\ FailsToParse(c, raw[i][c])
               => \/ IsNaN(spotify[i][c])
                  \/ /\ c = "in_shazam_charts"
                     /\ Executed("fillna")
                     /\ spotify[i][c] = Num(0)
    /\ exc # "none" /\ script[pc] = "to_numeric" =>
        \A i \in DOMAIN raw :
            IsStr(raw[i].in_deezer_playlists)
                => IsNumericText(raw[i].in_deezer_playlists.s)

\* a run coerced a value that does not parse to a missing value
C4_Witness ==
    /\ Executed("to_numeric")
    /\ \E i \in DOMAIN spotify :
        /\ IsStr(raw[i].streams) /\ ~IsNumericText(raw[i].streams.s)
        /\ IsNaN(spotify[i].streams)
        /\ IsStr(raw[i].in_deezer_playlists)
        /\ "x" \in Range(raw[i].in_deezer_playlists.s)
        /\ IsNaN(spotify[i].in_deezer_playlists)

C9_ShazamFilled ==
    Executed("fillna") =>
        \A i \in DOMAIN spotify :
            /\ spotify[i].in_shazam_charts =
                  IF SourceParses(raw[i].in_shazam_charts)
                  THEN Num(ParseInt(raw[i].in_shazam_charts.s))
                  ELSE Num(0)
            /\ IsNaN(spotify[i].streams) <=> ~SourceParses(raw[i].streams)
            /\ IsNaN(spotify[i].in_deezer_playlists) <=>
                  \/ ~IsStr(raw[i].in_deezer_playlists)
                  \/ ~IsNumericText(Ungrouped(raw[i].in_deezer_playlists.s))

\* a run filled a missing and a failed in_shazam_charts value, kept a parsed
\* one, and left a missing streams value missing
C9_Witness ==
    /\ Executed("fillna")
    /\ Len(spotify) = 2
    /\ IsNaN(raw[1].in_shazam_charts) /\ spotify[1].in_shazam_charts = Num(0)
    /\ IsStr(raw[2].in_shazam_charts) /\ ~SourceParses(raw[2].in_shazam_charts)
    /\ spotify[2].in_shazam_charts = Num(0)
    /\ IsNaN(spotify[1].streams)

---------------------------------------------------------------------------
(* Binning and the binned-combination view, checked under SpecBins. *)

MaxBinRows == 2

PercentUnit == 100

\* a percentage of the file: missing, or one of 0..100
AnyPercent == {NaN} \cup {Num(v) : v \in 0..PercentUnit}
SomeEnergy == {NaN, Num(0), Num(20), Num(45)}
SomeValence == {NaN, Num(0), Num(45)}
SomeCharts == {Num(1), Num(4)}

BinRow(e, v, ch) ==
    [BaseRow EXCEPT !.energy_pct = e, !.valence_pct = v,
                    !.in_spotify_charts = ch]

\* Files for the Deriver: one row with any two percentages, or up to max
\* rows with a few
BinFiles(max) ==
    {<<BinRow(e, v, Num(1))>> : e \in AnyPercent, v \in AnyPercent}
    \cup
    UNION {[1..rows -> {BinRow(e, v, ch) :
                e \in SomeEnergy, v \in SomeValence, ch \in SomeCharts}] :
           rows \in 1..max}

BinScript == CleanerScript \o <<"group_mean">>

InitBins == raw \in BinFiles(MaxBinRows) /\ script = BinScript /\ FirstRun

NextBins ==
    ReadCsv \/ Coerce \/ Drop \/ Percent \/ Bin \/ Fillna \/ MonthNames
        \/ GroupMean

SpecBins == InitBins /\ [][NextBins]_vars

\* the label whose range, [0, 0.2] or (a, b], holds the percentage p of 0..100
LabelOfPercent(p, labels) ==
    IF p <= 20 THEN labels[1]
    ELSE IF p <= 40 THEN labels[2]
    ELSE IF p <= 60 THEN labels[3]
    ELSE IF p <= 80 THEN labels[4]
    ELSE labels[5]

\* C1, as stated: every energy and valence value of [0, 1] that is not
\* missing gets the label whose range holds it, the first range holding 0.
C1_EveryValueLabelled ==
    Executed("cut") =>
        \A i \in DOMAIN spotify :
            /\ IsNum(raw[i].energy_pct) =>
                  spotify[i].energy_level =
                      LabelOfPercent(raw[i].energy_pct.n, energy_labels)
            /\ IsNum(raw[i].valence_pct) =>
                  spotify[i].valence_level =
                      LabelOfPercent(raw[i].valence_pct.n, valence_labels)

\* the same, for the values above 0
C1_PositiveValueLabelled ==
    Executed("cut") =>
        \A i \in DOMAIN spotify :
            /\ (IsNum(raw[i].energy_pct) /\ raw[i].energy_pct.n > 0) =>
                  spotify[i].energy_level =
                      LabelOfPercent(raw[i].energy_pct.n, energy_labels)
            /\ (IsNum(raw[i].valence_pct) /\ raw[i].valence_pct.n > 0) =>
                  spotify[i].valence_level =
                      LabelOfPercent(raw[i].valence_pct.n, valence_labels)

LabelPairs ==
    {<<e, v>> : e \in Range(energy_labels), v \in Range(valence_labels)}

\* the rows of the cleaned frame with the two levels of pair
RowsOfPair(pair) ==
    {i \in DOMAIN spotify : /\ spotify[i].energy_level = pair[1]
                            /\ spotify[i].valence_level = pair[2]}

EmittedPairs ==
    {<<combination_charts_avg[g].energy_level,
       combination_charts_avg[g].valence_level>> :
        g \in DOMAIN combination_charts_avg}

RECURSIVE ChartsTotal(_)
ChartsTotal(rows) ==
    IF rows = {} THEN 0
    ELSE LET i == CHOOSE i \in rows : TRUE
         IN  spotify[i].in_spotify_charts.n + ChartsTotal(rows \ {i})

\* C2, as stated: the view has exactly one row per pair of levels that has
\* a row of the frame, and none for a pair without rows.
C2_OnlyObservedPairs ==
    Executed("group_mean") =>
        /\ EmittedPairs = {pair \in LabelPairs : RowsOfPair(pair) # {}}
        /\ Len(combination_charts_avg) = Cardinality(EmittedPairs)

\* C2, amended: the view has exactly one row per pair of levels, 25 rows;
\* the average of a pair is missing exactly when no row of the frame has the
\* pair, and is otherwise the average of in_spotify_charts over the rows that
\* have it; a row whose energy or valence level is missing is in no pair.
C2_DenseGridMeans ==
    Executed("group_mean") =>
        /\ EmittedPairs = LabelPairs
        /\ Len(combination_charts_avg) = Cardinality(LabelPairs)
        /\ \A g \in DOMAIN combination_charts_avg :
            LET row == combination_charts_avg[g]
                under == RowsOfPair(<<row.energy_level, row.valence_level>>)
            IN  /\ IsNaN(row.in_spotify_charts) <=> under = {}
                /\ under # {} =>
                    row.in_spotify_charts.n * Cardinality(under)
                        = ChartsTotal(under) * row.in_spotify_charts.d
        /\ \A i \in DOMAIN spotify :
            (spotify[i].energy_level = Missing
                \/ spotify[i].valence_level = Missing)
            => \A pair \in LabelPairs : i \notin RowsOfPair(pair)

\* a frame with two rows of one pair and different chart counts, where
\* other pairs have no row
C2_Witness ==
    /\ Executed("group_mean")
    /\ \E pair \in LabelPairs :
        /\ Cardinality(RowsOfPair(pair)) = 2
        /\ \E i, j \in RowsOfPair(pair) :
            spotify[i].in_spotify_charts # spotify[j].in_spotify_charts
    /\ \E pair \in LabelPairs : RowsOfPair(pair) = {}

---------------------------------------------------------------------------
(* The top-artist view, checked under SpecTop. *)

MaxExtraRows == 2

ArtistRow(a, y, s) ==
    [BaseRow EXCEPT !.artist_s_name = a, !.released_year = Num(y),
                    !.streams = s]

\* ten artists with a song each in the first two years, and a later song of
\* one of them: one more artist makes more artists than the view lists
KnownSongs ==
    <<ArtistRow("A01", 2021, Str(<<"1", "0">>)),
      ArtistRow("A02", 2022, Str(<<"2", "0">>)),
      ArtistRow("A03", 2021, Str(<<"3", "0">>)),
      ArtistRow("A04", 2022, Str(<<"4", "0">>)),
      ArtistRow("A05", 2021, Str(<<"5", "0">>)),
      ArtistRow("A06", 2022, Str(<<"6", "0">>)),
      ArtistRow("A07", 2021, Str(<<"7", "0">>)),
      ArtistRow("A08", 2022, Str(<<"8", "0">>)),
      ArtistRow("A09", 2021, Str(<<"9", "0">>)),
      ArtistRow("A10", 2022, Str(<<"1", "0", "0">>)),
      ArtistRow("A03", 2023, Str(<<"8", "0">>))>>

ExtraArtists == {"A05", "A11"}
ExtraYears == {2022, 2023}
ExtraStreams == {NaN, Str(<<"1", "5">>)}

\* Files for the top-artist view: the known songs and up to max more, of
\* one of the ten artists or of an eleventh
ArtistFiles(max) ==
    UNION {{KnownSongs \o extra :
                extra \in [1..rows -> {ArtistRow(a, y, s) :
                    a \in ExtraArtists, y \in ExtraYears, s \in ExtraStreams}]} :
           rows \in 0..max}

TopScript == CleanerScript \o <<"top_artists">>

InitTop == raw \in ArtistFiles(MaxExtraRows) /\ script = TopScript /\ FirstRun

NextTop ==
    ReadCsv \/ Coerce \/ Drop \/ Percent \/ Bin \/ Fillna \/ MonthNames
        \/ TopArtist \/ SliderChange

SpecTop == InitTop /\ [][NextTop]_vars

\* the year range the current run filters by
YearRange == SliderValue(spotify, slider)

\* the rows of the frame of artist a released within the year range
RowsInRange(a) ==
    {i \in DOMAIN spotify :
        /\ spotify[i].artist_s_name = a
        /\ YearRange[1] <= spotify[i].released_year.n
        /\ spotify[i].released_year.n <= YearRange[2]}

RECURSIVE StreamsTotal(_)
StreamsTotal(rows) ==
    IF rows = {} THEN 0
    ELSE LET i == CHOOSE i \in rows : TRUE
         IN  (IF IsNum(spotify[i].streams) THEN spotify[i].streams.n ELSE 0)
                + StreamsTotal(rows \ {i})

ArtistsInRange == {a \in Range(ArtistOrder) : RowsInRange(a) # {}}

ListedArtists ==
    {artist_popularity[i].artist_s_name : i \in DOMAIN artist_popularity}

\* C3: the list has at most 10 rows, in descending order of summed streams;
\* the sum of a listed artist is the sum of the streams of the artist's rows
\* released within the inclusive year range; no artist left out has a larger
\* sum than a listed one.
C3_TopArtists ==
    Executed("top_artists") =>
        /\ Len(artist_popularity) <= 10
        /\ \A i, j \in DOMAIN artist_popularity :
            i < j => artist_popularity[i].streams.n >= artist_popularity[j].streams.n
        /\ \A i, j \in DOMAIN artist_popularity :
            i # j => artist_popularity[i].artist_s_name
                        # artist_popularity[j].artist_s_name
        /\ ListedArtists \subseteq ArtistsInRange
        /\ \A i \in DOMAIN artist_popularity :
            /\ IsNum(artist_popularity[i].streams)
            /\ artist_popularity[i].streams.d = 1
            /\ artist_popularity[i].streams.n
                  = StreamsTotal(RowsInRange(artist_popularity[i].artist_s_name))
        /\ \A a \in ArtistsInRange \ ListedArtists :
            /\ Len(artist_popularity) = 10
            /\ \A i \in DOMAIN artist_popularity :
                StreamsTotal(RowsInRange(a)) <= artist_popularity[i].streams.n

\* the slider was moved, more than ten artists have songs in the range, one
\* of the listed artists has two songs in it, one has a song outside it, and
\* a song released in the last year of the range counts
C3_Witness ==
    /\ Executed("top_artists")
    /\ slider # Default
    /\ Cardinality(ArtistsInRange) > 10
    /\ \E a \in ListedArtists : Cardinality(RowsInRange(a)) = 2
    /\ \E i \in DOMAIN spotify :
        /\ spotify[i].released_year.n = YearRange[2]
        /\ spotify[i].artist_s_name \in ListedArtists
        /\ spotify[i].streams # NaN
    /\ \E i \in DOMAIN spotify : spotify[i].released_year.n > YearRange[2]

---------------------------------------------------------------------------
(* The seasonal distribution view, checked under SpecSeasonal. *)

MaxSeasonRows == 2

SeasonMonths == {NaN, Num(1), Num(2), Num(6), Num(12), Num(13)}
SeasonStreams == {NaN, Str(<<"1", "0">>)}

SeasonRow(m, s) == [BaseRow EXCEPT !.released_month = m, !.streams = s]

TrackNames == <<"T1", "T2", "T3", "T4">>

\* the rows, each with the track name of its position
Numbered(rows) ==
    [i \in DOMAIN rows |-> [rows[i] EXCEPT !.track_name = TrackNames[i]]]

\* Files for the seasonal view: up to max rows
SeasonFiles(max) ==
    UNION {{Numbered(rows) :
                rows \in [1..len -> {SeasonRow(m, s) :
                    m \in SeasonMonths, s \in SeasonStreams}]} :
           len \in 1..max}

SeasonScript == CleanerScript \o <<"box_plot">>

InitSeasonal == raw \in SeasonFiles(MaxSeasonRows) /\ script = SeasonScript /\ FirstRun

NextSeasonal ==
    ReadCsv \/ Coerce \/ Drop \/ Percent \/ Bin \/ Fillna \/ MonthNames
        \/ BoxPlot \/ MultiselectChange

SpecSeasonal == InitSeasonal /\ [][NextSeasonal]_vars

\* the rows of the frame released in a selected month
SelectedRows ==
    {i \in DOMAIN spotify :
        \E k \in DOMAIN selected_months :
            selected_months[k] = spotify[i].released_month}

\* C8: the rows given to the box plot are the rows of the frame released in
\* a month of the selection, all of them and no other, each with its month
\* and its streams; the category order is the selection in the user's order.
C8_SeasonalRows ==
    Executed("box_plot") =>
        /\ Len(filtered_data_box) = Cardinality(SelectedRows)
        /\ \E f \in [DOMAIN filtered_data_box -> DOMAIN spotify] :
            /\ \A k, l \in DOMAIN f : k < l => f[k] < f[l]
            /\ {f[k] : k \in DOMAIN f} = SelectedRows
            /\ \A k \in DOMAIN f :
                /\ filtered_data_box[k] = spotify[f[k]]
                /\ IsNum(raw[f[k]].released_month)
                /\ filtered_data_box[k].released_month
                      = month_names[raw[f[k]].released_month.n]
                /\ filtered_data_box[k].streams
                      = IF SourceParses(raw[f[k]].streams)
                        THEN Num(ParseInt(raw[f[k]].streams.s)) ELSE NaN
        /\ box_category_order = selected_months

\* the user selected December before January; a row of a selected month is
\* kept and a row of another month is left out
C8_Witness ==
    /\ Executed("box_plot")
    /\ selected_months = <<"December", "January">>
    /\ Len(spotify) = 2
    /\ Len(filtered_data_box) = 1
    /\ filtered_data_box[1].released_month = "January"
    /\ spotify[1].released_month = "February"

---------------------------------------------------------------------------
(* The attribute-vs-playlists view, checked under SpecMelt. *)

MaxMeltRows == 2

MeltRow(dance, tempo, acoustic, lists) ==
    [BaseRow EXCEPT !.danceability_pct = dance, !.bpm = tempo,
                    !.acousticness_pct = acoustic,
                    !.in_spotify_playlists = lists]

\* Files for the facet view: up to max rows
MeltFiles(max) ==
    UNION {{Numbered(rows) :
                rows \in [1..len -> {MeltRow(dance, tempo, acoustic, lists) :
                    dance \in {Num(30), Num(70)},
                    tempo \in {Num(90), Num(120)},
                    acoustic \in {NaN, Num(5)},
                    lists \in {Num(10), Num(20)}}]} :
           len \in 1..max}

MeltScript == CleanerScript \o <<"melt">>

InitMelt == raw \in MeltFiles(MaxMeltRows) /\ script = MeltScript /\ FirstRun

NextMelt ==
    ReadCsv \/ Coerce \/ Drop \/ Percent \/ Bin \/ Fillna \/ MonthNames
        \/ MeltStep

SpecMelt == InitMelt /\ [][NextMelt]_vars

\* the value of a percentage of the file in the cleaned frame
AsFraction(c) == IF IsNum(c) THEN Rat(c.n, 100) ELSE c

\* C10: the long table has 3 N rows for a frame of N rows: for each of
\* danceability_%, bpm and acousticness_%, in this order, one row per row of
\* the frame with the attribute's name, that row's value of the attribute
\* and that row's in_spotify_playlists and track_name; the attribute order
\* given to the plot is danceability_%, bpm, acousticness_%.
C10_LongForm ==
    Executed("melt") =>
        LET rows == Len(spotify)
            attrs == <<"danceability_pct", "bpm", "acousticness_pct">>
        IN  /\ Len(spotify_melted) = 3 * rows
            /\ \A a \in 1..3 : \A i \in 1..rows :
                LET long == spotify_melted[(a - 1) * rows + i]
                IN  /\ long.attribute = attrs[a]
                    /\ long.value = spotify[i][attrs[a]]
                    /\ long.value = IF a = 2 THEN raw[i].bpm
                                    ELSE AsFraction(raw[i][attrs[a]])
                    /\ long.in_spotify_playlists = spotify[i].in_spotify_playlists
                    /\ long.in_spotify_playlists = raw[i].in_spotify_playlists
                    /\ long.track_name = raw[i].track_name
            /\ facet_category_order = attrs

\* a frame of two rows with different values was reshaped to six rows
C10_Witness ==
    /\ Executed("melt")
    /\ Len(spotify) = 2
    /\ Len(spotify_melted) = 6
    /\ spotify[1].danceability_pct # spotify[2].danceability_pct
    /\ spotify[1].in_spotify_playlists # spotify[2].in_spotify_playlists
    /\ spotify[1].bpm # spotify[2].bpm

---------------------------------------------------------------------------
(* The Clusterer, checked under SpecCluster on correlation matrices. *)

MaxLevel == 2

\* how the eight metrics fall in groups of correlated metrics
Groupings ==
    {<<1, 1, 1, 1, 2, 2, 2, 2>>, <<1, 2, 1, 2, 1, 2, 1, 2>>,
     <<1, 1, 2, 2, 3, 3, 4, 4>>, <<1, 2, 3, 4, 4, 3, 2, 1>>,
     <<1, 1, 1, 2, 2, 3, 3, 3>>}

Distance(x, y) == IF x < y THEN y - x ELSE x - y

\* A symmetric matrix with 1.00 on the diagonal: metrics of one group
\* correlate strongly, metrics of two groups the less the farther the groups;
\* the metrics are numbered from the turn-th on.
GroupedMatrix(groups, within, between, turn) ==
    LET at(i) == ((i + turn - 1) % 8) + 1
        entry(i, j) ==
            IF i = j THEN 100
            ELSE IF groups[i] = groups[j]
                 THEN 95 - 10 * within - ((i * j) % 4)
                 ELSE 40 - 15 * Distance(groups[i], groups[j]) - 10 * between
                         + ((i * j) % 4)
    IN  [index |-> columns,
         columns |-> columns,
         values |-> [i \in 1..8 |-> [j \in 1..8 |->
                        Rat(entry(at(i), at(j)), 100)]]]

\* the matrix with the correlations of its first metric missing
WithConstantColumn(m) ==
    [m EXCEPT !.values = [i \in 1..8 |-> [j \in 1..8 |->
                            IF i = 1 \/ j = 1 THEN NaN ELSE m.values[i][j]]]]

CorrelationMatrices ==
    LET finite == {GroupedMatrix(g, w, b, turn) :
                      g \in Groupings, w \in 0..MaxLevel, b \in 0..MaxLevel,
                      turn \in 0..7}
    IN  finite \cup {WithConstantColumn(GroupedMatrix(g, 0, 0, 0)) :
                        g \in Groupings}

InitCluster ==
    /\ correlation_matrix \in CorrelationMatrices
    /\ script = <<"linkage">>
    /\ raw = Undefined
    /\ pc = 1
    /\ exc = "none"
    /\ spotify = Undefined
    /\ slider = Default
    /\ selected_months = month_names
    /\ artist_popularity = Undefined
    /\ filtered_data_box = Undefined
    /\ box_category_order = Undefined
    /\ combination_charts_avg = Undefined
    /\ spotify_melted = Undefined
    /\ facet_category_order = Undefined
    /\ clustered_order = Undefined
    /\ heatmap = Undefined

NextCluster == Cluster

SpecCluster == InitCluster /\ [][NextCluster]_vars

\* the position of metric name in the list of l.226-229
MetricIndex(name) == CHOOSE a \in DOMAIN columns : columns[a] = name

\* the numbers of a sequence of cells, as a bag
CellBag(cells) ==
    [v \in {cells[i] : i \in DOMAIN cells} |->
        Cardinality({i \in DOMAIN cells : cells[i] = v})]

\* C6: the leaf order p is a permutation of the eight metrics; the rows of
\* the output are in order p and its columns in the reverse of p:
\* output[i][j] = C[p[i]][p[n + 1 - j]]; every row and column of the output
\* has the values of the row or column of C it comes from.
C6_ClusteredMatrix ==
    Executed("linkage") =>
        LET p == clustered_order
            c == correlation_matrix.values
        IN  /\ Len(p) = 8
            /\ {p[i] : i \in 1..8} = Range(columns)
            /\ heatmap.index = p
            /\ heatmap.columns = [j \in 1..8 |-> p[9 - j]]
            /\ \A i, j \in 1..8 :
                heatmap.values[i][j]
                    = c[MetricIndex(p[i])][MetricIndex(p[9 - j])]
            /\ \A i \in 1..8 :
                CellBag(heatmap.values[i]) = CellBag(c[MetricIndex(p[i])])
            /\ \A j \in 1..8 :
                CellBag([i \in 1..8 |-> heatmap.values[i][j]])
                    = CellBag([i \in 1..8 |-> c[i][MetricIndex(p[9 - j])]])

\* the clustering moved the metrics out of their order in the list, and the
\* output is not symmetric any more: its columns are reversed
C6_Witness ==
    /\ Executed("linkage")
    /\ clustered_order # columns
    /\ clustered_order[1] # columns[1]
    /\ heatmap.values[1][8] = Rat(100, 100)
    /\ heatmap.values[1][1] # Rat(100, 100)

---------------------------------------------------------------------------
(* The whole script and its re-runs, checked under Spec. *)

FullScript ==
    CleanerScript
        \o <<"top_artists", "box_plot", "group_mean", "melt", "corr", "linkage">>

Song(name, artist, year, month, streams, lists, charts, apple_charts,
     apple_lists, deezer_lists, deezer_charts, shazam, energy, valence) ==
    [BaseRow EXCEPT !.track_name = name, !.artist_s_name = artist,
                    !.released_year = Num(year), !.released_month = Num(month),
                    !.streams = streams, !.in_spotify_playlists = Num(lists),
                    !.in_spotify_charts = Num(charts),
                    !.in_apple_charts = Num(apple_charts),
                    !.in_apple_playlists = Num(apple_lists),
                    !.in_deezer_playlists = deezer_lists,
                    !.in_deezer_charts = Num(deezer_charts),
                    !.in_shazam_charts = shazam,
                    !.energy_pct = Num(energy), !.valence_pct = Num(valence)]

\* Files for the whole script: three songs and a fourth that varies.  No
\* song but the fourth is in a Deezer chart: without it the column is
\* constant and has no correlation.
SongFiles ==
    {<<Song("T1", "A01", 2021, 1, Str(<<"1">>), 1, 0, 2, 1,
            Str(<<"2">>), 0, NaN, 0, 15),
       Song("T2", "A02", 2022, 2, Str(<<"2">>), 3, 1, 0, 2,
            Str(<<"1", ",", "2">>), 0, Str(<<"1">>), 45, 45),
       Song("T3", "A01", 2023, 6, Str(<<"3">>), 2, 3, 1, 0,
            Str(<<"x">>), 0, Str(<<"1", ",", "0">>), 85, 45),
       Song("T4", artist, IF artist = "A01" THEN 2021 ELSE 2023, month,
            streams, 0, 2, 3, 3, Str(<<"1">>), deezer_charts, NaN, 45, 45)>> :
        artist \in {"A01", "A03"}, month \in {2, 12},
        streams \in {Str(<<"x">>), Str(<<"0">>)}, deezer_charts \in {0, 1}}

Init == raw \in SongFiles /\ script = FullScript /\ FirstRun

Next ==
    \/ ReadCsv \/ Coerce \/ Drop \/ Percent \/ Bin \/ Fillna \/ MonthNames
    \/ TopArtist \/ BoxPlot \/ GroupMean \/ MeltStep \/ Correlate \/ Cluster
    \/ SliderChange \/ MultiselectChange

Spec == Init /\ [][Next]_vars

\* the cleaned frame of a run of l.8-44 on the file, from nothing
CleanedFrame(file) ==
    month_to_name(fillna_shazam(BinLevels(DividePercentages(
        DropColumns(
            to_numeric_shazam(to_numeric_deezer(to_numeric_streams(
                read_csv(file)))),
            dropped_columns),
        1))))

\* C7: when a run ends, whatever widget changes came before it, the cleaned
\* frame and every view are those of one run of the script on the file with
\* the widget values of now; and a run is ended by an exception only where
\* such a run raises it.
C7_FreshRun ==
    LET frame == CleanedFrame(raw)
        year_range == SliderValue(frame, slider)
        corr == Corr(frame)
        order == LeafOrder(corr)
    IN  /\ Finished =>
            /\ spotify = frame
            /\ artist_popularity
                  = TopArtists(frame, year_range[1], year_range[2])
            /\ filtered_data_box = FilterMonths(frame, selected_months)
            /\ box_category_order = selected_months
            /\ combination_charts_avg = GroupMeanCharts(frame)
            /\ spotify_melted = Melt(frame)
            /\ facet_category_order = facet_attribute_order
            /\ correlation_matrix = corr
            /\ clustered_order = order
            /\ heatmap = ReverseColumns(Loc(corr, order))
        /\ exc # "none" =>
            /\ script[pc] = "linkage"
            /\ HasMissing(corr)

\* a run ended after the slider and the multiselect were both changed
C7_Witness ==
    /\ Finished
    /\ slider = <<2022, 2023>>
    /\ selected_months = <<"December", "February">>
    /\ Len(artist_popularity) = 2
    /\ Len(filtered_data_box) = 2

===========================================================================
